---- MODULE Spec2Model ----
(***************************************************************************)
(* A model of exiftool.py: the ExifTool class (process lifecycle, the      *)
(* sentinel-delimited execute protocol, the batch helpers), the child      *)
(* process it drives and the two pipes between them.                       *)
(*                                                                         *)
(* A Python str is a sequence of one-character strings.  A Python value    *)
(* handed to a helper is either a str or a list of str (PyStr / PyList).   *)
(***************************************************************************)
EXTENDS Integers, Sequences, FiniteSets, TLC

(***************************************************************************)
(* Bounds of the model.                                                    *)
(***************************************************************************)
\* how many calls of execute and of the helpers are made in one behaviour
MaxCalls == 2
\* how many child processes may be spawned in one behaviour
MaxSpawn == 2

(***************************************************************************)
(* Module-level values of exiftool.py.                                     *)
(***************************************************************************)
sentinel == <<"{", "r", "e", "a", "d", "y", "}", "\n">>

block_size == 4096

\* the literal "-execute\n" appended by execute
ExecuteDirective == <<"-", "e", "x", "e", "c", "u", "t", "e", "\n">>

\* the literal "-stay_open\nFalse\n" written by terminate
ShutdownDirective ==
    <<"-", "s", "t", "a", "y", "_", "o", "p", "e", "n", "\n",
      "F", "a", "l", "s", "e", "\n">>

(***************************************************************************)
(* Strings.                                                                *)
(***************************************************************************)
Min(a, b) == IF a <= b THEN a ELSE b

Take(s, n) == SubSeq(s, 1, Min(n, Len(s)))

Drop(s, n) == SubSeq(s, Min(n, Len(s)) + 1, Len(s))

\* str.endswith
EndsWith(s, suf) ==
    /\ Len(suf) <= Len(s)
    /\ SubSeq(s, Len(s) - Len(suf) + 1, Len(s)) = suf

\* the slice s[:-n] for n > 0
DropLast(s, n) == SubSeq(s, 1, IF Len(s) >= n THEN Len(s) - n ELSE 0)

\* whether pat occurs in s at position i (1-based)
OccursAt(s, pat, i) ==
    /\ i >= 1
    /\ i + Len(pat) - 1 <= Len(s)
    /\ SubSeq(s, i, i + Len(pat) - 1) = pat

\* the positions at which pat occurs in s
Occurrences(s, pat) == {i \in 1..Len(s) : OccursAt(s, pat, i)}

\* str.join(sep, parts)
RECURSIVE Join(_, _)
Join(sep, parts) ==
    IF Len(parts) = 0 THEN <<>>
    ELSE IF Len(parts) = 1 THEN parts[1]
    ELSE parts[1] \o sep \o Join(sep, Tail(parts))

(***************************************************************************)
(* Python values handed to the helpers.                                    *)
(***************************************************************************)
PyStr(s) == [isstr |-> TRUE, s |-> s, l |-> <<>>]

PyList(l) == [isstr |-> FALSE, s |-> <<>>, l |-> l]

PyNone == PyList(<<>>)

\* isinstance(v, basestring)
IsBaseString(v) == v.isstr

\* what iterating over the value yields: the items of a list, the
\* one-character strings of a str
Iterate(v) ==
    IF v.isstr THEN [i \in 1..Len(v.s) |-> <<v.s[i]>>] ELSE v.l

(***************************************************************************)
(* Inputs of the model.                                                    *)
(***************************************************************************)
\* a file name and a tag name
FileName == <<"a", "b">>

TagName == <<"T">>

\* the argument tuples handed to execute
ExecuteParams == { <<>>, <<FileName>>, <<<<"-">> \o TagName, FileName>> }

\* a collection argument handed to a helper: a list, or a single str
Collections(item) == { PyList(<<item>>), PyStr(item) }

\* what the tool prints for one batch before it prints the sentinel
Contents == { <<>>, <<"[", "]">> }

\* what the tool prints for one '-execute' line: content and sentinel (its
\* contract), content that itself holds the sentinel text, or content
\* after which it stops without printing the sentinel
Responses ==
    {c \o sentinel : c \in Contents}
        \cup {sentinel \o sentinel, <<"[">>}

\* the sentinel occurs in r exactly once, as its final bytes
OnlyFinal(r) == Occurrences(r, sentinel) = {Len(r) - Len(sentinel) + 1}

\* the lines of a text: its maximal pieces ended by "\n" (without the "\n")
HasLine(s) == \E i \in 1..Len(s) : s[i] = "\n"

FirstNL(s) == CHOOSE i \in 1..Len(s) : s[i] = "\n" /\ \A j \in 1..(i - 1) : s[j] # "\n"

FirstLine(s) == SubSeq(s, 1, FirstNL(s) - 1)

AfterFirstLine(s) == SubSeq(s, FirstNL(s) + 1, Len(s))

RECURSIVE ExecLines(_)
\* how many complete lines of s are the directive '-execute'
ExecLines(s) ==
    IF ~HasLine(s) THEN 0
    ELSE (IF FirstLine(s) = DropLast(ExecuteDirective, 1) THEN 1 ELSE 0)
            + ExecLines(AfterFirstLine(s))

(***************************************************************************)
(* State.                                                                  *)
(***************************************************************************)
AllThreads == {1, 2}

Pids == 1..MaxSpawn

VARIABLES
    \* the ExifTool instance
    running,     \* self.running
    process,     \* self._process: the pid of the Popen object, 0 = no attribute
    \* the operating system: child processes and pipes, by pid
    nspawn,      \* how many children were spawned so far
    live,        \* the children that have not exited
    stdin,       \* bytes written to the child's stdin it has not read yet
    stdout,      \* bytes the child has written to its stdout that the parent has not read yet
    tmode,       \* the child's argument parser: "args" or "stay_open"
    \* the calling threads
    threads,     \* the threads that use the instance
    pc,          \* where each thread is inside the method it called
    cur,         \* the call each thread made last
    ret,         \* how that call ended
    output,      \* execute's local 'output'
    fd,          \* execute's local 'fd': the pid whose stdout it reads
    \* the instance's surroundings
    scope,       \* "none", or "with" inside a with block
    destroyed,   \* __del__ has been invoked
    mutex,       \* the callers wrap each call of execute in one mutex of their own
    ncalls,      \* how many calls of execute and of the helpers were made
    \* history
    gen,         \* what the current child wrote since the last batch was written to it
    clean,       \* every batch written to the current child had one '-execute' line, and
                 \* every response of the child the sentinel once, as its final bytes
    nshut,       \* by pid: how many times terminate wrote the shutdown directive to it
    ndrop,       \* by pid: how many times terminate dropped its handle
    askers,      \* the threads whose batches the current child has not run yet, in order
    own          \* by thread: what the child printed for the thread's latest batch

inst == <<running, process>>

env == <<nspawn, live, stdin, stdout, tmode>>

thr == <<pc, cur, ret, output, fd>>

around == <<threads, scope, destroyed, mutex>>

\* the history of the releases
rel == <<nshut, ndrop>>

\* the history of the batches and their responses
resp == <<askers, own>>

hist == <<gen, clean, rel, resp>>

vars == <<inst, env, thr, around, ncalls, hist>>

\* how a call ended
NoResult == [kind |-> "none", exc |-> "", val |-> <<>>, decoded |-> FALSE, warned |-> FALSE]

Returned(v) == [kind |-> "return", exc |-> "", val |-> v, decoded |-> FALSE, warned |-> FALSE]

\* the method returns None after warnings.warn(...)
Warned == [Returned(<<>>) EXCEPT !.warned = TRUE]

Raised(e) == [kind |-> "raise", exc |-> e, val |-> <<>>, decoded |-> FALSE, warned |-> FALSE]

\* a call: the method, its arguments, its number
\* a call: the method and its arguments (for __exit__: the exception that left
\* the with block, and the method that raised it)
NewCall(op, a, b) == [op |-> op, a |-> a, b |-> b, exc |-> "", src |-> ""]

NoCall == NewCall("", PyNone, PyNone)

InitCommon ==
    /\ running = FALSE
    /\ process = 0
    /\ nspawn = 0
    /\ live = {}
    /\ stdin = [p \in Pids |-> <<>>]
    /\ stdout = [p \in Pids |-> <<>>]
    /\ tmode = [p \in Pids |-> "args"]
    /\ pc = [t \in AllThreads |-> "idle"]
    /\ cur = [t \in AllThreads |-> NoCall]
    /\ ret = [t \in AllThreads |-> NoResult]
    /\ output = [t \in AllThreads |-> <<>>]
    /\ fd = [t \in AllThreads |-> 0]
    /\ scope = "none"
    /\ destroyed = FALSE
    /\ ncalls = 0
    /\ gen = <<>>
    /\ clean = TRUE
    /\ nshut = [p \in Pids |-> 0]
    /\ ndrop = [p \in Pids |-> 0]
    /\ askers = <<>>
    /\ own = [t \in AllThreads |-> <<>>]

\* __init__: self.running = False, one calling thread
Init == InitCommon /\ threads = {1} /\ mutex = FALSE

(***************************************************************************)
(* Calls: a thread that is inside no method calls one.                     *)
(***************************************************************************)
Begin(t, c) ==
    /\ t \in threads
    /\ pc[t] = "idle"
    /\ ~destroyed
    /\ cur' = [cur EXCEPT ![t] = c]

\* a call of start, terminate, __enter__, __exit__ or __del__
BeginLife(t, c) == Begin(t, c) /\ UNCHANGED ncalls

\* a call of execute or of a helper
BeginBatch(t, c) == Begin(t, c) /\ ncalls < MaxCalls /\ ncalls' = ncalls + 1

\* the method returns or raises
Finish(t, r) ==
    /\ pc' = [pc EXCEPT ![t] = "idle"]
    /\ ret' = [ret EXCEPT ![t] = r]

\* the method goes on at another line
Goto(t, line) ==
    /\ pc' = [pc EXCEPT ![t] = line]
    /\ ret' = [ret EXCEPT ![t] = NoResult]

(***************************************************************************)
(* start                                                                   *)
(***************************************************************************)
\* if self.running: warnings.warn(...); return
StartRunning(t) ==
    /\ Finish(t, Warned)
    /\ UNCHANGED <<inst, env, output, fd, hist>>

\* a start that sets the flag before it launches the child
StartSpawn_FlagFirst(t) ==
    \/ /\ nspawn < MaxSpawn
       /\ nspawn' = nspawn + 1
       /\ process' = nspawn + 1
       /\ live' = live \cup {nspawn + 1}
       /\ running' = TRUE
       /\ Finish(t, Returned(<<>>))
       /\ UNCHANGED <<stdin, stdout, tmode, output, fd, hist>>
    \/ /\ running' = TRUE
       /\ Finish(t, Raised("OSError"))
       /\ UNCHANGED <<process, env, output, fd, hist>>

\* self._process = subprocess.Popen(...); self.running = True
\* Popen either creates a child with two fresh pipes or raises OSError
StartSpawn(t) ==
    \/ /\ nspawn < MaxSpawn
       /\ nspawn' = nspawn + 1
       /\ process' = nspawn + 1
       /\ live' = live \cup {nspawn + 1}
       /\ running' = TRUE
       /\ Finish(t, Returned(<<>>))
       /\ UNCHANGED <<stdin, stdout, tmode, output, fd, hist>>
    \/ /\ Finish(t, Raised("OSError"))
       /\ UNCHANGED <<inst, env, output, fd, hist>>

\* a start without the test of self.running
StartBody_NoCheck(t) == StartSpawn(t)

StartBody(t) == IF running THEN StartRunning(t) ELSE StartSpawn(t)

Start(t) ==
    /\ BeginLife(t, NewCall("start", PyNone, PyNone))
    /\ StartBody(t)
    /\ UNCHANGED around

(***************************************************************************)
(* terminate                                                               *)
(***************************************************************************)
\* a terminate without the test of self.running: it reaches for self._process
TerminateNotRunning_Raises(t) ==
    /\ Finish(t, Raised("AttributeError"))
    /\ UNCHANGED <<inst, env, output, fd, hist>>

\* if not self.running: return
TerminateNotRunning(t) ==
    /\ Finish(t, Returned(<<>>))
    /\ UNCHANGED <<inst, env, output, fd, hist>>

\* self._process.stdin.write("-stay_open\nFalse\n"); self._process.stdin.flush()
\* writing to the pipe of a child that has exited raises IOError (EPIPE)
TerminateWrite(t) ==
    IF process = 0 THEN
        /\ Finish(t, Raised("AttributeError"))
        /\ UNCHANGED <<inst, env, output, fd, hist>>
    ELSE IF process \notin live THEN
        /\ Finish(t, Raised("IOError"))
        /\ UNCHANGED <<inst, env, output, fd, hist>>
    ELSE
        /\ stdin' = [stdin EXCEPT ![process] = @ \o ShutdownDirective]
        /\ nshut' = [nshut EXCEPT ![process] = @ + 1]
        /\ Goto(t, "communicate")
        /\ UNCHANGED <<inst, nspawn, live, stdout, tmode, output, fd, gen, clean, ndrop, resp>>

TerminateBody(t) == IF ~running THEN TerminateNotRunning(t) ELSE TerminateWrite(t)

Terminate(t) ==
    /\ BeginLife(t, NewCall("terminate", PyNone, PyNone))
    /\ TerminateBody(t)
    /\ UNCHANGED around

\* a terminate that closes the child's stdout without waiting for its exit
Communicate_NoWait(t) ==
    /\ pc[t] = "communicate"
    /\ stdout' = [stdout EXCEPT ![process] = <<>>]
    /\ Goto(t, "del")
    /\ UNCHANGED <<inst, nspawn, live, stdin, tmode, cur, output, fd,
                   around, ncalls, hist>>

\* self._process.communicate(): stdin is stdout is read to its end and
\* the child waited for; this blocks until the child has exited
Communicate(t) ==
    /\ pc[t] = "communicate"
    /\ process \notin live
    /\ stdout' = [stdout EXCEPT ![process] = <<>>]
    /\ Goto(t, "del")
    /\ UNCHANGED <<inst, nspawn, live, stdin, tmode, cur, output, fd,
                   around, ncalls, hist>>

\* del self._process: the handle and its streams are released
TerminateDel(t) ==
    /\ pc[t] = "del"
    /\ process' = 0
    /\ ndrop' = [ndrop EXCEPT ![process] = @ + 1]
    /\ gen' = <<>>
    /\ clean' = TRUE
    /\ Goto(t, "reset")
    /\ UNCHANGED <<running, env, cur, output, fd, around, ncalls, nshut, resp>>

\* self.running = False; terminate returns, and so does an __exit__ that called it
TerminateReset(t) ==
    /\ pc[t] = "reset"
    /\ running' = FALSE
    /\ Finish(t, Returned(<<>>))
    /\ scope' = IF cur[t].op = "__exit__" THEN "none" ELSE scope
    /\ UNCHANGED <<process, env, cur, output, fd, threads, destroyed, mutex, ncalls, hist>>

(***************************************************************************)
(* __enter__, __exit__, __del__                                            *)
(***************************************************************************)
\* with et: ...   --  __enter__ calls start; the block is entered unless it raises
WithEnter(t) ==
    /\ scope = "none"
    /\ BeginLife(t, NewCall("__enter__", PyNone, PyNone))
    /\ StartBody(t)
    /\ scope' = IF ret'[t].kind = "raise" THEN "none" ELSE "with"
    /\ UNCHANGED <<threads, destroyed, mutex>>

\* the with block is left, normally (byExc = FALSE) or by an exception raised in
\* its body: __exit__ calls terminate and returns None either way
WithExit(t, byExc) ==
    /\ scope = "with"
    /\ \A u \in threads : pc[u] = "idle"
    /\ byExc => ret[t].kind = "raise"
    /\ BeginLife(t, [NewCall("__exit__", PyNone, PyNone) EXCEPT
                    !.exc = IF byExc THEN ret[t].exc ELSE "",
                    !.src = IF byExc THEN cur[t].op ELSE ""])
    /\ TerminateBody(t)
    /\ scope' = IF pc'[t] = "idle" THEN "none" ELSE scope
    /\ UNCHANGED <<threads, destroyed, mutex>>

\* the instance is garbage collected: __del__ calls terminate
Del(t) ==
    /\ scope = "none"
    /\ \A u \in threads : pc[u] = "idle"
    /\ BeginLife(t, NewCall("__del__", PyNone, PyNone))
    /\ TerminateBody(t)
    /\ destroyed' = TRUE
    /\ UNCHANGED <<threads, scope, mutex>>

(***************************************************************************)
(* execute                                                                 *)
(***************************************************************************)
\* a loop that tests for the sentinel without its final newline
LoopDone_NoNewline(out) == EndsWith(out, DropLast(sentinel, 1))

\* a loop that ends as soon as the sentinel occurs anywhere in the output
LoopDone_Contains(out) == Occurrences(out, sentinel) # {}

\* a loop that ends only when the output is the sentinel and nothing else
LoopDone_WholeOutput(out) == out = sentinel

\* not output.endswith(sentinel) is false: the loop ends
LoopDone(out) == EndsWith(out, sentinel)

\* an execute that returns the output with the sentinel left in
ExecuteValue_KeepsSentinel(out) == out

\* an execute that returns the output up to the first sentinel in it
ExecuteValue_CutAtFirst(out) ==
    IF Occurrences(out, sentinel) = {} THEN out
    ELSE SubSeq(out, 1, (CHOOSE i \in Occurrences(out, sentinel) :
                            \A j \in Occurrences(out, sentinel) : i <= j) - 1)

\* an execute that cuts one byte too many off the output
ExecuteValue_DropsOneMore(out) == DropLast(out, Len(sentinel) + 1)

\* return output[:-len(sentinel)]
ExecuteValue(out) == DropLast(out, Len(sentinel))

\* json.loads on the tool's text: of the texts of this model only "[]" is JSON
\* (the empty list); any other raises ValueError
JsonLoads(text) ==
    IF text = <<"[", "]">>
    THEN [Returned(<<>>) EXCEPT !.decoded = TRUE]
    ELSE Raised("ValueError")

\* what the method that called execute makes of its value: execute hands it
\* on; the helpers decode it (get_tag_batch then maps the records, of which
\* the empty list has none)
CallResult(c, text) == IF c.op = "execute" THEN Returned(text) ELSE JsonLoads(text)

\* while not output.endswith(sentinel): ...   return output[:-len(sentinel)]
\* the loop's test on the bytes accumulated so far
LoopTest(t, c, out) ==
    IF LoopDone(out)
    THEN Finish(t, CallResult(c, ExecuteValue(out)))
    ELSE Goto(t, "read")

\* an execute that returns an empty output instead of raising
ExecuteNotRunning_Silent(t) ==
    /\ Finish(t, Returned(<<>>))
    /\ UNCHANGED <<inst, env, output, fd, hist>>

\* an execute that starts the child itself when the instance is not running
ExecuteNotRunning_Starts(t) == StartSpawn(t)

\* if not self.running: raise ValueError("ExifTool instance not running.")
ExecuteNotRunning(t) ==
    /\ Finish(t, Raised("ValueError"))
    /\ UNCHANGED <<inst, env, output, fd, hist>>

\* an execute that joins the arguments and then appends the directive
Payload_JoinFirst(params) == Join(<<"\n">>, params) \o ExecuteDirective

\* params += ("-execute\n",); str.join("\n", params)
Payload(params) == Join(<<"\n">>, Append(params, ExecuteDirective))

\* self._process.stdin.write(...); self._process.stdin.flush(); output = "";
\* fd = self._process.stdout.fileno()
ExecuteWrite(t, params) ==
    IF process = 0 THEN
        /\ Finish(t, Raised("AttributeError"))
        /\ UNCHANGED <<inst, env, output, fd, hist>>
    ELSE IF process \notin live THEN
        /\ Finish(t, Raised("IOError"))
        /\ UNCHANGED <<inst, env, output, fd, hist>>
    ELSE
        /\ stdin' = [stdin EXCEPT ![process] = @ \o Payload(params)]
        /\ gen' = <<>>
        /\ clean' = (clean /\ ExecLines(Payload(params)) = 1)
        /\ askers' = Append(askers, t)
        /\ own' = [own EXCEPT ![t] = <<>>]
        /\ output' = [output EXCEPT ![t] = <<>>]
        /\ fd' = [fd EXCEPT ![t] = process]
        /\ LoopTest(t, cur'[t], <<>>)
        /\ UNCHANGED <<inst, nspawn, live, stdout, tmode, rel>>

ExecuteBody(t, params) ==
    IF ~running THEN ExecuteNotRunning(t) ELSE ExecuteWrite(t, params)

Execute(t, params) ==
    /\ BeginBatch(t, NewCall("execute", PyList(params), PyNone))
    /\ ExecuteBody(t, params)
    /\ UNCHANGED around

\* os.read(fd, block_size), when n bytes have arrived: at most block_size of them
ReadChunk(buf, n) == Take(buf, Min(n, block_size))

\* a loop that keeps only the bytes of the last read: output = os.read(...)
ExecuteRead_Overwrites(t, n) ==
    /\ pc[t] = "read"
    /\ IF stdout[fd[t]] = <<>> THEN n = 0 /\ fd[t] \notin live
       ELSE IF fd[t] \in live THEN n \in 1..Len(stdout[fd[t]])
       ELSE n = Len(stdout[fd[t]])
    /\ output' = [output EXCEPT ![t] = ReadChunk(stdout[fd[t]], n)]
    /\ stdout' = [stdout EXCEPT ![fd[t]] = Drop(@, Len(ReadChunk(@, n)))]
    /\ LoopTest(t, cur[t], output'[t])
    /\ UNCHANGED <<inst, nspawn, live, stdin, tmode, cur, fd, around, ncalls, hist>>

\* output += os.read(fd, block_size), and the loop's test after it.  The read
\* blocks while nothing has arrived and the child holds its end of the pipe
\* open; of what the child has written any part may have arrived; once the child
\* has exited the read returns what is left, and "" at the end of the file
ExecuteRead(t, n) ==
    /\ pc[t] = "read"
    /\ IF stdout[fd[t]] = <<>> THEN n = 0 /\ fd[t] \notin live
       ELSE IF fd[t] \in live THEN n \in 1..Len(stdout[fd[t]])
       ELSE n = Len(stdout[fd[t]])
    /\ output' = [output EXCEPT ![t] = @ \o ReadChunk(stdout[fd[t]], n)]
    /\ stdout' = [stdout EXCEPT ![fd[t]] = Drop(@, Len(ReadChunk(@, n)))]
    /\ LoopTest(t, cur[t], output'[t])
    /\ UNCHANGED <<inst, nspawn, live, stdin, tmode, cur, fd, around, ncalls, hist>>

(***************************************************************************)
(* The batch helpers.                                                      *)
(***************************************************************************)
\* self.execute("-G", "-j", "-n", *params)
MetadataParams(v) == << <<"-", "G">>, <<"-", "j">>, <<"-", "n">> >> \o Iterate(v)

GetMetadataBatch(t, v) ==
    /\ BeginBatch(t, NewCall("get_metadata_batch", v, PyNone))
    /\ ExecuteBody(t, MetadataParams(v))
    /\ UNCHANGED around

\* a get_tags_batch that tests only 'tags'
RejectsStrings_TagsOnly(tags, filenames) == IsBaseString(tags)

\* the two isinstance(..., basestring) tests of get_tags_batch
RejectsStrings(tags, filenames) == IsBaseString(tags) \/ IsBaseString(filenames)

\* params = ["-" + t for t in tags]; params.extend(filenames)
TagsParams(tags, filenames) ==
    [i \in 1..Len(Iterate(tags)) |-> <<"-">> \o Iterate(tags)[i]] \o Iterate(filenames)

\* get_tags_batch: raise TypeError for a str, else get_metadata_batch(params)
TagsBatchBody(t, tags, filenames) ==
    IF RejectsStrings(tags, filenames)
    THEN /\ Finish(t, Raised("TypeError"))
         /\ UNCHANGED <<inst, env, output, fd, hist>>
    ELSE ExecuteBody(t, MetadataParams(PyList(TagsParams(tags, filenames))))

GetTagsBatch(t, tags, filenames) ==
    /\ BeginBatch(t, NewCall("get_tags_batch", tags, filenames))
    /\ TagsBatchBody(t, tags, filenames)
    /\ UNCHANGED around

\* get_tag_batch: data = self.get_tags_batch([tag], filenames)
GetTagBatch(t, tag, filenames) ==
    /\ BeginBatch(t, NewCall("get_tag_batch", PyStr(tag), filenames))
    /\ TagsBatchBody(t, PyList(<<tag>>), filenames)
    /\ UNCHANGED around

(***************************************************************************)
(* The child process: exiftool -stay_open True -@ -                        *)
(* It reads its stdin line by line; the line '-execute' runs the batch and *)
(* prints the output and the sentinel; '-stay_open' and 'False' end it.    *)
(***************************************************************************)
\* the batch is run: its output is written
ToolRespond(p, r) ==
    /\ stdout' = [stdout EXCEPT ![p] = @ \o r]
    /\ gen' = gen \o r
    /\ clean' = (clean /\ OnlyFinal(r))
    /\ askers' = IF askers = <<>> THEN askers ELSE Tail(askers)
    /\ own' = IF askers = <<>> THEN own ELSE [own EXCEPT ![Head(askers)] = r]
    /\ UNCHANGED <<live, tmode>>

\* the child reads one line of its stdin
ToolLine(p) ==
    /\ p \in live
    /\ HasLine(stdin[p])
    /\ LET line == FirstLine(stdin[p]) IN
         IF tmode[p] = "stay_open" THEN
            /\ IF line = <<"F", "a", "l", "s", "e">>
               THEN /\ live' = live \ {p}
                    /\ stdin' = [stdin EXCEPT ![p] = <<>>]
                    /\ askers' = <<>>
               ELSE /\ live' = live
                    /\ stdin' = [stdin EXCEPT ![p] = AfterFirstLine(@)]
                    /\ askers' = askers
            /\ tmode' = [tmode EXCEPT ![p] = "args"]
            /\ UNCHANGED <<stdout, gen, clean, own>>
         ELSE /\ stdin' = [stdin EXCEPT ![p] = AfterFirstLine(@)]
              /\ IF line = DropLast(ExecuteDirective, 1) THEN
                    \E r \in Responses : ToolRespond(p, r)
                 ELSE IF line = <<"-", "s", "t", "a", "y", "_", "o", "p", "e", "n">> THEN
                    /\ tmode' = [tmode EXCEPT ![p] = "stay_open"]
                    /\ UNCHANGED <<live, stdout, gen, clean, resp>>
                 ELSE UNCHANGED <<live, stdout, gen, clean, resp, tmode>>
    /\ UNCHANGED <<inst, nspawn, thr, around, ncalls, rel>>

\* the child exits on its own (it crashes or is killed).  What it wrote and had
\* reached the pipe can still be read: all of it (flushed), or none of it (a
\* part of it having arrived is a read of that part before the exit).  What
\* was written to its stdin and it had not read is discarded with the pipe
ToolDies(p, flushed) ==
    /\ p \in live
    /\ live' = live \ {p}
    /\ stdout' = [stdout EXCEPT ![p] = IF flushed THEN @ ELSE <<>>]
    /\ stdin' = [stdin EXCEPT ![p] = <<>>]
    /\ tmode' = [tmode EXCEPT ![p] = "args"]
    /\ askers' = <<>>
    /\ UNCHANGED <<inst, nspawn, thr, around, ncalls, gen, clean, rel, own>>

(***************************************************************************)
(* The specification.                                                      *)
(***************************************************************************)
Next ==
    \/ \E t \in AllThreads :
        \/ Start(t)
        \/ Terminate(t)
        \/ Communicate(t)
        \/ TerminateDel(t)
        \/ TerminateReset(t)
        \/ WithEnter(t)
        \/ \E byExc \in BOOLEAN : WithExit(t, byExc)
        \/ Del(t)
        \/ \E params \in ExecuteParams : Execute(t, params)
        \/ \E n \in 0..(2 * MaxCalls * Len(sentinel)) : ExecuteRead(t, n)
        \/ \E v \in Collections(FileName) : GetMetadataBatch(t, v)
        \/ \E tags \in Collections(TagName), filenames \in Collections(FileName) :
              GetTagsBatch(t, tags, filenames)
        \/ \E filenames \in Collections(FileName) : GetTagBatch(t, TagName, filenames)
    \/ \E p \in Pids :
        \/ ToolLine(p)
        \/ \E flushed \in BOOLEAN : ToolDies(p, flushed)

Spec == Init /\ [][Next]_vars

(***************************************************************************)
(* Two threads that share one started instance and call execute on it.     *)
(***************************************************************************)
\* the instance after start(), shared by the two threads; the threads either
\* wrap each call of execute in one mutex of their own, or do not
InitThreads ==
    /\ running = TRUE
    /\ process = 1
    /\ nspawn = 1
    /\ live = {1}
    /\ stdin = [p \in Pids |-> <<>>]
    /\ stdout = [p \in Pids |-> <<>>]
    /\ tmode = [p \in Pids |-> "args"]
    /\ pc = [t \in AllThreads |-> "idle"]
    /\ cur = [t \in AllThreads |->
                IF t = 1 THEN NewCall("start", PyNone, PyNone) ELSE NoCall]
    /\ ret = [t \in AllThreads |-> IF t = 1 THEN Returned(<<>>) ELSE NoResult]
    /\ output = [t \in AllThreads |-> <<>>]
    /\ fd = [t \in AllThreads |-> 0]
    /\ scope = "none"
    /\ destroyed = FALSE
    /\ ncalls = 0
    /\ gen = <<>>
    /\ clean = TRUE
    /\ nshut = [p \in Pids |-> 0]
    /\ ndrop = [p \in Pids |-> 0]
    /\ askers = <<>>
    /\ own = [t \in AllThreads |-> <<>>]
    /\ threads = AllThreads
    /\ mutex \in BOOLEAN

\* with lock: et.execute(...)  --  where the callers use a mutex, a thread
\* enters execute only while no other thread is inside it
MutexFree(t) == mutex => \A u \in threads \ {t} : pc[u] = "idle"

\* the reads explored for two threads that read the same pipe at once: each
\* takes all that has arrived (every split is explored where a mutex keeps the
\* readers apart)
WholeReads(t, n) == mutex \/ (pc[t] = "read" /\ n = Len(stdout[fd[t]]))

NextThreads ==
    \/ \E t \in AllThreads :
        \/ \E params \in ExecuteParams : MutexFree(t) /\ Execute(t, params)
        \/ \E n \in 0..(2 * MaxCalls * Len(sentinel)) : WholeReads(t, n) /\ ExecuteRead(t, n)
    \/ \E p \in Pids : ToolLine(p)

ThreadsSpec == InitThreads /\ [][NextThreads]_vars

\* the scheduling the operating system gives: a child that has a line to read
\* reads it, and a read of a pipe that holds bytes, or is at its end, returns
FairSpec ==
    /\ Spec
    /\ \A p \in Pids : WF_vars(ToolLine(p))
    /\ \A t \in AllThreads :
          WF_vars(\E n \in 0..(2 * MaxCalls * Len(sentinel)) : ExecuteRead(t, n))

(***************************************************************************)
(* Vocabulary of the properties.                                           *)
(***************************************************************************)
\* this step is thread t calling method op (a thread inside no method changes
\* its own state only by calling one)
CallStep(t, op) ==
    /\ pc[t] = "idle"
    /\ <<pc[t], cur[t], ret[t]>>' # <<pc[t], cur[t], ret[t]>>
    /\ cur'[t].op = op

\* thread t's last call was execute and it returned a value
ExecuteReturned(t) ==
    /\ t \in threads
    /\ pc[t] = "idle"
    /\ cur[t].op = "execute"
    /\ ret[t].kind = "return"

\* the text before the first occurrence of the sentinel in s (all of s if
\* there is none)
BeforeFirst(s) ==
    IF Occurrences(s, sentinel) = {} THEN s
    ELSE LET first == CHOOSE i \in Occurrences(s, sentinel) :
                          \A j \in Occurrences(s, sentinel) : i <= j
         IN  SubSeq(s, 1, first - 1)

\* the methods that send a batch: execute and the helpers
BatchOps == {"execute", "get_metadata_batch", "get_tags_batch", "get_tag_batch"}

\* the methods that run start's code, and those that run terminate's
StartOps == {"start", "__enter__"}

TerminateOps == {"terminate", "__exit__", "__del__"}

\* no thread is inside a method
AllIdle == \A t \in threads : pc[t] = "idle"

(***************************************************************************)
(* C1.  execute and the tool's output.                                     *)
(***************************************************************************)
\* C1 as claimed: whatever the tool writes and however it arrives, execute
\* returns exactly what the tool wrote, after the batch was written to it,
\* before the first occurrence of the sentinel.
C1_ReturnsTextBeforeFirstSentinel ==
    \A t \in AllThreads : ExecuteReturned(t) => ret[t].val = BeforeFirst(gen)

\* C1 as amended: when every batch written to the child so far held '-execute'
\* only as its last line, and the child answered each with output that holds
\* the sentinel exactly once, as its final bytes, execute returns exactly what
\* the child wrote for the batch before the sentinel, however it arrived.
C1_ReturnsTextBeforeSentinelWhenFramed ==
    \A t \in AllThreads :
        ExecuteReturned(t) /\ clean =>
            /\ Occurrences(gen, sentinel) # {}
            /\ ret[t].val = BeforeFirst(gen)

\* the second execute of a session returned the text "[]"
C1_Witness ==
    \E t \in AllThreads :
        /\ ExecuteReturned(t)
        /\ clean
        /\ ncalls = 2
        /\ ret[t].val = <<"[", "]">>

(***************************************************************************)
(* C2.  One sentinel per call.                                             *)
(***************************************************************************)
\* C2 as claimed: when execute has returned it has consumed exactly one
\* occurrence of the sentinel, and no bytes are left unread in the child's
\* output.
C2_OneSentinelPerCall ==
    \A t \in AllThreads :
        ExecuteReturned(t) =>
            /\ Cardinality(Occurrences(output[t], sentinel)) = 1
            /\ stdout[fd[t]] = <<>>

\* C2 as amended: when every batch written to the child so far held '-execute'
\* only as its last line, and the child answered each with output that holds
\* the sentinel exactly once, as its final bytes, then when execute has returned
\* it has consumed exactly the child's output for its own batch, with one
\* occurrence of the sentinel, at its end; nothing is left unread in the child's
\* output and no batch is left unanswered in its input.
C2_OneSentinelPerCallWhenFramed ==
    \A t \in AllThreads :
        ExecuteReturned(t) /\ clean =>
            /\ Cardinality(Occurrences(output[t], sentinel)) = 1
            /\ EndsWith(output[t], sentinel)
            /\ output[t] = gen
            /\ stdout[fd[t]] = <<>>
            /\ ExecLines(stdin[fd[t]]) = 0

\* the second execute of a session returned, the child still running
C2_Witness ==
    \E t \in AllThreads :
        /\ ExecuteReturned(t)
        /\ clean
        /\ ncalls = 2
        /\ fd[t] \in live
        /\ Len(output[t]) > Len(sentinel)

(***************************************************************************)
(* C3.  execute on an instance that is not running.                        *)
(***************************************************************************)
\* C3: a call of execute while the instance is not running raises ValueError
\* at once: the thread is back outside the method, nothing was written, read
\* or spawned, and the instance is still not running.
C3_ExecuteNotRunningRaises ==
    [][\A t \in AllThreads :
          CallStep(t, "execute") /\ ~running =>
              /\ ret'[t] = Raised("ValueError")
              /\ pc'[t] = "idle"
              /\ UNCHANGED <<inst, env>>]_vars

\* execute raised ValueError after the instance had been started and terminated
C3_Witness ==
    \E t \in AllThreads :
        /\ pc[t] = "idle"
        /\ cur[t].op = "execute"
        /\ ret[t] = Raised("ValueError")
        /\ ~running
        /\ nspawn >= 1

(***************************************************************************)
(* C4.  start on a running instance.                                       *)
(***************************************************************************)
\* C4: a call of start (or of __enter__, which calls it) while the instance is
\* running returns with a warning and changes nothing: no child is spawned,
\* the handle and the streams are the same, and the instance is left running
\* with exactly one live child.
C4_StartWhileRunningIsNoOp ==
    [][\A t \in AllThreads :
          (CallStep(t, "start") \/ CallStep(t, "__enter__")) /\ running =>
              /\ ret'[t] = Warned
              /\ pc'[t] = "idle"
              /\ UNCHANGED <<inst, env>>
              /\ running'
              /\ Cardinality(live') = 1]_vars

(***************************************************************************)
(* C5.  terminate on an instance that is not running.                      *)
(***************************************************************************)
\* C5: a call of terminate (or of __exit__ or __del__, which call it) while the
\* instance is not running returns at once and changes nothing: nothing is
\* written, nothing is waited for, nothing raised.
C5_TerminateNotRunningIsNoOp ==
    [][\A t \in AllThreads :
          /\ CallStep(t, "terminate") \/ CallStep(t, "__exit__") \/ CallStep(t, "__del__")
          /\ ~running
          => /\ ret'[t] = Returned(<<>>)
             /\ pc'[t] = "idle"
             /\ UNCHANGED <<inst, env>>]_vars

\* terminate returned on an instance that was started and terminated before,
\* or never started
C5_Witness ==
    \E t \in AllThreads :
        /\ pc[t] = "idle"
        /\ cur[t].op = "terminate"
        /\ ret[t] = Returned(<<>>)
        /\ ~running
        /\ nspawn = 0

(***************************************************************************)
(* C6.  Leaving a with block; destruction.                                 *)
(***************************************************************************)
\* C6: when __exit__ (the with block is left, normally or by an exception) or
\* __del__ is over, the instance is not running and no child of it is live.
C6_ScopeExitTerminates ==
    \A t \in AllThreads :
        pc[t] = "idle" /\ cur[t].op \in {"__exit__", "__del__"} =>
            ~running /\ live = {}

(***************************************************************************)
(* C7.  The attribute 'running'.                                           *)
(***************************************************************************)
\* C7: between calls, running is true exactly when the instance holds the
\* handle of a child that is running.
C7_RunningIffLiveChild ==
    AllIdle => (running <=> (process # 0 /\ process \in live))

(***************************************************************************)
(* C8.  A str handed to get_tags_batch or get_tag_batch.                   *)
(***************************************************************************)
\* C8: get_tags_batch called with a str for tags or for filenames, and
\* get_tag_batch called with a str for filenames, raise TypeError at once and
\* write nothing to the child.
C8_TagsBatchRejectsStr ==
    [][\A t \in AllThreads :
          \/ CallStep(t, "get_tags_batch") /\ (cur'[t].a.isstr \/ cur'[t].b.isstr)
          \/ CallStep(t, "get_tag_batch") /\ cur'[t].b.isstr
          => /\ ret'[t] = Raised("TypeError")
             /\ pc'[t] = "idle"
             /\ UNCHANGED <<inst, env>>]_vars

\* get_tags_batch, handed a list of tags and a str for filenames while the
\* child was running, raised TypeError
C8_Witness ==
    \E t \in AllThreads :
        /\ pc[t] = "idle"
        /\ cur[t].op = "get_tags_batch"
        /\ ~cur[t].a.isstr
        /\ cur[t].b.isstr
        /\ ret[t] = Raised("TypeError")
        /\ running
        /\ process \in live

(***************************************************************************)
(* C9.  A str handed to get_metadata_batch.                                *)
(***************************************************************************)
\* C9: get_metadata_batch called with a str (here: on an instance whose child
\* is running) raises TypeError and writes nothing to the child.
C9_MetadataBatchRejectsStr ==
    [][\A t \in AllThreads :
          /\ CallStep(t, "get_metadata_batch")
          /\ cur'[t].a.isstr
          /\ running
          /\ process \in live
          =>
              /\ ret'[t] = Raised("TypeError")
              /\ stdin' = stdin]_vars

(***************************************************************************)
(* C10.  No partial result.                                                *)
(***************************************************************************)
\* C10: a thread in execute's read loop leaves it only when the bytes it has
\* accumulated end with the sentinel, and the value execute then returns is
\* those bytes without the sentinel; until then it stays in the loop and the
\* caller has been handed nothing, also once the child has exited.
C10_NoPartialResult ==
    [][\A t \in AllThreads :
          pc'[t] = "read" \/ pc[t] = "read" =>
              \/ /\ pc'[t] = "read"
                 /\ ret'[t] = NoResult
                 /\ ~EndsWith(output'[t], sentinel)
              \/ /\ pc'[t] = "idle"
                 /\ EndsWith(output'[t], sentinel)
                 /\ cur'[t].op = "execute" =>
                        ret'[t] = Returned(SubSeq(output'[t], 1,
                                                  Len(output'[t]) - Len(sentinel)))]_vars

\* the child has exited after writing part of its output: execute has read it
\* all and is still in its loop
C10_Witness ==
    \E t \in AllThreads :
        /\ pc[t] = "read"
        /\ fd[t] \notin live
        /\ stdout[fd[t]] = <<>>
        /\ output[t] # <<>>
        /\ ~EndsWith(output[t], sentinel)

(***************************************************************************)
(* C11.  execute returns when the tool keeps its contract.                 *)
(***************************************************************************)
\* the tool keeps its contract: whatever it has printed for the batches run
\* since the last write ends with the sentinel, and while a call waits for
\* output the child has not exited with that output unwritten or lost
ToolKeepsContract ==
    /\ gen = <<>> \/ EndsWith(gen, sentinel)
    /\ \A t \in threads :
          pc[t] = "read" /\ fd[t] \notin live =>
              EndsWith(output[t] \o stdout[fd[t]], sentinel)

\* C11: under fair scheduling of the child and of the reads, if the tool always
\* keeps its contract, no thread stays in execute's read loop for ever: every
\* call that has entered the loop leaves it (the call returns), however the
\* bytes are split across the reads.
C11_ExecuteEventuallyReturns ==
    []ToolKeepsContract =>
        \A t \in AllThreads : []<>(pc[t] # "read")

\* a first call of execute has returned the empty text, its child still
\* running, the tool having kept its contract
C11_Witness ==
    \E t \in AllThreads :
        /\ ExecuteReturned(t)
        /\ ToolKeepsContract
        /\ fd[t] \in live
        /\ gen = output[t]
        /\ ret[t].val = <<>>
        /\ ncalls = 1

(***************************************************************************)
(* C12.  One child at a time, released once.                               *)
(***************************************************************************)
\* C12: at any time at most one child of the instance is live, and it is the
\* one whose handle the instance holds; no child was sent the shutdown
\* directive more than once, and no handle was dropped more than once, or
\* without its child having been sent the directive.
C12_OneChildReleasedOnce ==
    /\ Cardinality(live) <= 1
    /\ live \subseteq {process}
    /\ \A p \in Pids :
          /\ nshut[p] <= 1
          /\ ndrop[p] <= nshut[p]

\* the instance was restarted: the first child was sent the directive and its
\* handle dropped, once each, and the second child is the only one live
C12_Witness ==
    /\ nspawn = 2
    /\ live = {2}
    /\ process = 2
    /\ nshut[1] = 1
    /\ ndrop[1] = 1

(***************************************************************************)
(* C13.  The order of terminate's steps.                                   *)
(***************************************************************************)
\* C13: terminate, called while the instance is running and its child live,
\* first writes the shutdown directive to the child's stdin (and nothing
\* else changes); it goes on only once the child has exited, with the child's
\* output drained; it then drops the handle, the flag still true; and only then
\* resets the flag and returns.  The flag is cleared and the handle dropped by
\* these steps only; the flag is never false while a child is live; and when
\* terminate has returned the flag is false and the handle dropped.
C13_TerminateOrder ==
    /\ [](~running => live = {})
    /\ [](\A t \in AllThreads :
            pc[t] = "idle" /\ cur[t].op = "terminate" /\ ret[t].kind = "return" =>
                ~running /\ process = 0)
    /\ [][/\ \A t \in AllThreads :
              /\ CallStep(t, "terminate") /\ running /\ process \in live =>
                    /\ pc'[t] = "communicate"
                    /\ stdin'[process] = stdin[process] \o ShutdownDirective
                    /\ UNCHANGED <<inst, nspawn, live, stdout>>
              /\ pc[t] = "communicate" /\ pc'[t] # "communicate" =>
                    /\ pc'[t] = "del"
                    /\ process \notin live
                    /\ nshut[process] = 1
                    /\ stdout'[process] = <<>>
                    /\ UNCHANGED inst
              /\ pc[t] = "del" /\ pc'[t] # "del" =>
                    /\ pc'[t] = "reset"
                    /\ process # 0 /\ process' = 0
                    /\ running /\ running'
              /\ pc[t] = "reset" /\ pc'[t] # "reset" =>
                    /\ pc'[t] = "idle"
                    /\ ret'[t] = Returned(<<>>)
                    /\ running /\ ~running'
                    /\ process = 0 /\ process' = 0
          /\ running /\ ~running' => \E t \in AllThreads : pc[t] = "reset"
          /\ process # 0 /\ process' = 0 => \E t \in AllThreads : pc[t] = "del"]_vars

\* a call of terminate has dropped the handle of the child it sent the
\* directive to and waited for, and has not reset the flag yet
C13_Witness ==
    \E t \in AllThreads :
        /\ pc[t] = "reset"
        /\ cur[t].op = "terminate"
        /\ running
        /\ process = 0
        /\ live = {}
        /\ nshut[nspawn] = 1
        /\ ndrop[nspawn] = 1

(***************************************************************************)
(* C14.  What changes the flag and the handle.                             *)
(***************************************************************************)
\* C14: the flag goes from false to true only in a call of start's code, and
\* from true to false only in the last step of terminate's code; the handle
\* is set only by start's code and dropped only by terminate's.  A call of
\* execute or of a helper, and each step of its read loop, whether the call
\* returns or raises, leaves flag and handle as they are; start's code leaves a
\* true flag true, and terminate's code leaves a false flag false.
C14_OnlyStartAndTerminateChangeLiveness ==
    [][/\ ~running /\ running' =>
              \E t \in AllThreads : \E op \in StartOps : CallStep(t, op)
       /\ running /\ ~running' =>
              \E t \in AllThreads : pc[t] = "reset" /\ cur[t].op \in TerminateOps
       /\ process' # process =>
              \/ \E t \in AllThreads : \E op \in StartOps : CallStep(t, op)
              \/ \E t \in AllThreads : pc[t] = "del" /\ cur[t].op \in TerminateOps
       /\ \A t \in AllThreads :
            /\ (pc[t] = "read" \/ \E op \in BatchOps : CallStep(t, op)) =>
                   UNCHANGED inst
            /\ (\E op \in StartOps : CallStep(t, op)) /\ running => running'
            /\ (cur'[t].op \in TerminateOps /\ pc[t] # "reset") /\ ~running => ~running'
      ]_vars

\* an execute failed on an instance whose flag is set (its child had exited):
\* flag and handle are as they were
C14_Witness ==
    \E t \in AllThreads :
        /\ pc[t] = "idle"
        /\ cur[t].op = "execute"
        /\ ret[t] = Raised("IOError")
        /\ running
        /\ process # 0

(***************************************************************************)
(* C15.  What execute writes.                                              *)
(***************************************************************************)
\* the arguments, each followed by one newline
RECURSIVE EachWithNewline(_)
EachWithNewline(args) ==
    IF args = <<>> THEN <<>>
    ELSE Head(args) \o <<"\n">> \o EachWithNewline(Tail(args))

\* this step is thread t calling execute on an instance whose child is running
ExecuteOnRunning(t) ==
    CallStep(t, "execute") /\ running /\ process \in live

\* the call wrote text to the child in this one step, before any read: the
\* child's stdin grew by text, the call's output is empty, nothing was taken
\* from the child's stdout, and the read loop writes nothing afterwards
WritesOnce(t, text) ==
    /\ ExecuteOnRunning(t) =>
          /\ stdin'[process] = stdin[process] \o text
          /\ output'[t] = <<>>
          /\ stdout' = stdout
    /\ pc[t] = "read" /\ output'[t] # output[t] => stdin' = stdin

\* C15 as claimed: execute(A) writes the arguments of A joined by single
\* newlines, then a newline, then '-execute' and a newline, in one write before
\* the first read, for every A, the empty one included.
C15_WritesJoinedThenNewlineThenDirective ==
    [][\A t \in AllThreads :
          WritesOnce(t, Join(<<"\n">>, cur'[t].a.l) \o <<"\n">> \o ExecuteDirective)]_vars

\* C15 as amended: execute(A) writes each argument of A followed by one
\* newline, in order, then '-execute' and a newline, in one write before the
\* first read; for the empty A that is '-execute' and a newline alone.
C15_WritesArgumentLinesThenDirective ==
    [][\A t \in AllThreads :
          WritesOnce(t, EachWithNewline(cur'[t].a.l) \o ExecuteDirective)]_vars

\* execute was called with two arguments and is in its read loop: the child's
\* stdin holds the two lines and the directive
C15_Witness ==
    \E t \in AllThreads :
        /\ pc[t] = "read"
        /\ cur[t].op = "execute"
        /\ Len(cur[t].a.l) = 2
        /\ fd[t] \in live
        /\ stdin[fd[t]] = <<"-", "T", "\n", "a", "b", "\n">> \o ExecuteDirective

(***************************************************************************)
(* C16.  Exact-suffix matching.                                            *)
(***************************************************************************)
\* C16: a thread is in the read loop only with accumulated bytes that do not
\* end with the sentinel, whether or not the sentinel occurs inside them; when
\* execute has returned, the bytes it accumulated end with the sentinel and
\* the value is those bytes with that final sentinel, and nothing else,
\* removed: an occurrence inside them is part of the value.
C16_ExactSuffixMatching ==
    \A t \in AllThreads :
        /\ pc[t] = "read" => ~EndsWith(output[t], sentinel)
        /\ ExecuteReturned(t) =>
              /\ EndsWith(output[t], sentinel)
              /\ ret[t].val \o sentinel = output[t]
              /\ Occurrences(ret[t].val, sentinel) =
                    Occurrences(output[t], sentinel) \ {Len(output[t]) - Len(sentinel) + 1}

\* a thread is still in the read loop with accumulated bytes that hold the
\* sentinel, followed by more
C16_Witness ==
    \E t \in AllThreads :
        /\ pc[t] = "read"
        /\ Occurrences(output[t], sentinel) # {}

(***************************************************************************)
(* C17.  Two threads, with and without a mutex around execute.             *)
(***************************************************************************)
\* C17 as claimed, the mutex: where every call of execute is wrapped in one
\* mutex, a call that has returned returned exactly the response to its own
\* batch.
C17_MutexGivesOwnResponse ==
    \A t \in AllThreads :
        mutex /\ ExecuteReturned(t) => ret[t].val \o sentinel = own[t]

\* C17 as amended, the mutex: where every call of execute is wrapped in one
\* mutex, and every response of the child so far holds the sentinel exactly
\* once, as its final bytes, a call that has returned returned exactly the
\* response to its own batch and consumed nothing else, and between calls
\* nothing is left unread in the child's output.
C17_MutexGivesOwnResponseWhenFramed ==
    \A t \in AllThreads :
        mutex /\ clean /\ ExecuteReturned(t) =>
            /\ ret[t].val \o sentinel = own[t]
            /\ output[t] = own[t]
            /\ AllIdle => stdout[fd[t]] = <<>>

\* C17, no mutex: were the calls of two threads kept apart by the engine, no
\* call would return while its own batch is unanswered.  (This is the negation
\* of the claim's first half: the claim says a state that violates it is
\* reachable.)
C17_CallsKeptApartWithoutMutex ==
    \A t \in AllThreads :
        ~mutex /\ clean /\ ExecuteReturned(t) => own[t] # <<>>

\* without a mutex, the child keeping its contract: a call has returned the
\* response to the other thread's batch while its own batch is unanswered
C17_Witness ==
    \E t \in AllThreads : \E u \in AllThreads \ {t} :
        /\ ~mutex
        /\ clean
        /\ ExecuteReturned(t)
        /\ askers = <<t>>
        /\ own[u] # <<>>
        /\ output[t] = own[u]

\* with the mutex, the child keeping its contract: both threads have returned,
\* each the response to its own batch, and the two differ
C17_MutexWitness ==
    /\ mutex
    /\ clean
    /\ \A t \in AllThreads : ExecuteReturned(t) /\ ret[t].val \o sentinel = own[t]
    /\ own[1] # own[2]

(***************************************************************************)
(* C18.  The value does not depend on how the output is split.             *)
(***************************************************************************)
\* p is a prefix of s
IsPrefix(p, s) == Len(p) <= Len(s) /\ SubSeq(s, 1, Len(p)) = p

\* C18 as claimed: when the response to a call's batch holds the sentinel
\* exactly once, as its final bytes, the call returns that response without
\* the sentinel, whatever the reads were.
C18_ValueIndependentOfSplitOfItsResponse ==
    \A t \in AllThreads :
        ExecuteReturned(t) /\ OnlyFinal(own[t]) =>
            ret[t].val = SubSeq(own[t], 1, Len(own[t]) - Len(sentinel))

\* C18 as amended: while every response of the child holds the sentinel exactly once, as
\* its final bytes, a call of execute that is in its read loop has accumulated
\* a prefix of the response to its batch, and not all of it, whatever the
\* reads were; and a call that has returned returned that response without
\* the sentinel: the value is fixed by the response alone, not by the reads.
C18_ValueIndependentOfSplit ==
    \A t \in AllThreads :
        clean /\ cur[t].op = "execute" =>
            /\ pc[t] = "read" =>
                  /\ IsPrefix(output[t], own[t])
                  /\ own[t] # <<>> => output[t] # own[t]
            /\ ExecuteReturned(t) =>
                  ret[t].val = SubSeq(own[t], 1, Len(own[t]) - Len(sentinel))

\* a call of execute is in its read loop after a read that cut the sentinel
\* of its response "[]{ready}\n" in two: it holds "[]" and part of the sentinel
C18_Witness ==
    \E t \in AllThreads :
        /\ clean
        /\ cur[t].op = "execute"
        /\ pc[t] = "read"
        /\ own[t] = <<"[", "]">> \o sentinel
        /\ IsPrefix(output[t], own[t])
        /\ Len(output[t]) > 2
        /\ Len(output[t]) < Len(own[t])

(***************************************************************************)
(* C19.  A launch that fails.                                              *)
(***************************************************************************)
\* thread t's last call ran start's code, and the launch raised
StartFailed(t) ==
    /\ pc[t] = "idle"
    /\ cur[t].op \in StartOps
    /\ ret[t] = Raised("OSError")

\* C19: a call of start's code in which the launch raises changes nothing and
\* leaves the instance not running, without a handle and without a live
\* child; a call of execute that follows raises ValueError, and a call of
\* terminate or __del__ that follows returns, both without touching the
\* instance, a child or a pipe.
C19_FailedLaunchLeavesNotStarted ==
    [][\A t \in AllThreads :
          /\ (\E op \in StartOps : CallStep(t, op)) /\ ret'[t] = Raised("OSError") =>
                /\ ~running' /\ process' = 0 /\ live' = {}
                /\ UNCHANGED <<inst, env>>
          /\ StartFailed(t) /\ CallStep(t, "execute") =>
                /\ ret'[t] = Raised("ValueError")
                /\ pc'[t] = "idle"
                /\ UNCHANGED <<inst, env>>
          /\ StartFailed(t) /\ (CallStep(t, "terminate") \/ CallStep(t, "__del__")) =>
                /\ ret'[t] = Returned(<<>>)
                /\ pc'[t] = "idle"
                /\ UNCHANGED <<inst, env>>]_vars

\* the launch failed when the instance was started again after a terminate
C19_Witness ==
    \E t \in AllThreads :
        /\ StartFailed(t)
        /\ cur[t].op = "start"
        /\ nspawn = 1
        /\ ndrop[1] = 1
        /\ ~running
        /\ process = 0

(***************************************************************************)
(* C20.  Starting again after terminate.                                   *)
(***************************************************************************)
\* a call of start that follows a call of terminate and does not raise spawns
\* a child that never ran before, now the only live one, with empty pipes,
\* and the instance holds its handle and is running
RestartSpawnsFresh ==
    \A t \in AllThreads :
        /\ pc[t] = "idle" /\ cur[t].op = "terminate"
        /\ CallStep(t, "start")
        /\ ret'[t].kind = "return"
        => /\ nspawn' = nspawn + 1
           /\ process' = nspawn'
           /\ process' \notin live
           /\ live' = {process'}
           /\ running'
           /\ stdin'[process'] = <<>>
           /\ stdout'[process'] = <<>>

\* a step that sets the handle sets it to a child that never ran before, now
\* the only live one, with empty pipes; a call in the read loop reads the
\* stdout of the child whose handle the instance holds; its accumulation
\* changes only by being emptied at the call or by taking bytes off the front
\* of that stdout; and a child's stdout grows only while that child is live
\* and the instance holds its handle
ReadsOnlyCurrentChild ==
    /\ process' # process /\ process' # 0 =>
          /\ process' = nspawn + 1
          /\ process' \notin live
          /\ live' = {process'}
          /\ stdin'[process'] = <<>>
          /\ stdout'[process'] = <<>>
    /\ \A t \in AllThreads :
          /\ pc'[t] = "read" => fd'[t] = process' /\ process' # 0
          /\ output'[t] # output[t] =>
                \/ output'[t] = <<>> /\ pc[t] = "idle"
                \/ /\ pc[t] = "read"
                   /\ \E k \in 1..Len(stdout[fd[t]]) :
                         /\ output'[t] = output[t] \o SubSeq(stdout[fd[t]], 1, k)
                         /\ stdout'[fd[t]] =
                               SubSeq(stdout[fd[t]], k + 1, Len(stdout[fd[t]]))
    /\ \A p \in Pids :
          Len(stdout'[p]) > Len(stdout[p]) => p \in live /\ p = process

\* C20: the instance can be used again after terminate, whatever happened
\* before it: a start that follows a terminate spawns a fresh child with fresh
\* pipes, and execute then returns only bytes the new child wrote.
C20_ReusableAfterTerminate ==
    [][RestartSpawnsFresh /\ ReadsOnlyCurrentChild]_vars

\* C20, the part that holds: whenever a child is spawned it is a fresh one
\* with fresh pipes, and execute returns only bytes written by the child whose
\* handle the instance holds, never bytes of an earlier session.
C20_ReadsOnlyCurrentChild == [][ReadsOnlyCurrentChild]_vars

\* after a terminate and a second start, an execute has returned "[]", read
\* from the second child
C20_RestartedWitness ==
    \E t \in AllThreads :
        /\ ExecuteReturned(t)
        /\ ncalls = 2
        /\ nspawn = 2
        /\ ndrop[1] = 1
        /\ fd[t] = 2
        /\ process = 2
        /\ ret[t].val = <<"[", "]">>

====
